---- MODULE Spec2Model ----
(***************************************************************************)
(* Pest_finder, app.py: the POST / pipeline                                *)
(*   decode data URL -> write uploaded_images/captured_image.jpg -> OCR    *)
(*   -> prompt -> Gemini -> os.remove -> JSON response.                    *)
(*                                                                         *)
(* Text (OCR fragments, prompt, responses) is modelled with TLA+ strings;  *)
(* a data URL is a sequence of one-character strings so that split(',')    *)
(* and base64 decoding are computed character by character; bytes are      *)
(* integers 0..255; confidences are hundredths (0.7 is 70).                *)
(* A Python value that may be None is a record [tag, val].                 *)
(*                                                                         *)
(* The file system is POSIX: open(path,'wb') creates or truncates the file *)
(* at the path, os.remove unlinks it while other descriptors stay open on  *)
(* the unlinked file.  Requests are the threads of the host server; each   *)
(* action is one blocking step of index() for one request.                 *)
(***************************************************************************)
EXTENDS Integers, Sequences, FiniteSets, TLC

\* ---------------------------------------------------------------- bounds
NumRequests == 2      \* requests the host server has in flight
MaxFragments == 3     \* OCR fragments per image (ExtractSpec)
MaxUrlLen == 7        \* characters of a data URL (IngressSpec)

Requests == 1..NumRequests

\* ---------------------------------------------------------- Python values
None == [tag |-> "None", val |-> <<>>]
Str(s) == [tag |-> "str", val |-> s]
NoText == [tag |-> "None", val |-> ""]
Text(s) == [tag |-> "str", val |-> s]

\* `not data_url`: None and the empty string are falsy
Falsy_Strict(v) == v.tag = "str" /\ v.val = <<>>
Falsy(v) == v.tag = "None" \/ v.val = <<>>

\* request.json.get('image'): None when the key is absent or the value null
JsonGet(body) == IF body.has_image THEN body.image ELSE None

\* ------------------------------------------------------------ str.split
\* the characters of s before the first sep (all of s when there is none)
RECURSIVE Head_(_, _)
Head_(s, sep) ==
    IF s = <<>> \/ Head(s) = sep THEN <<>>
    ELSE <<Head(s)>> \o Head_(Tail(s), sep)

\* s.split(sep): the segments between the separators, always at least one
RECURSIVE Split(_, _)
Split(s, sep) ==
    LET first == Head_(s, sep) IN
    IF Len(first) = Len(s) THEN <<first>>
    ELSE <<first>> \o Split(SubSeq(s, Len(first) + 2, Len(s)), sep)

\* ------------------------------------------------------ base64.b64decode
B64Alphabet ==
    << "A","B","C","D","E","F","G","H","I","J","K","L","M","N","O","P",
       "Q","R","S","T","U","V","W","X","Y","Z","a","b","c","d","e","f",
       "g","h","i","j","k","l","m","n","o","p","q","r","s","t","u","v",
       "w","x","y","z","0","1","2","3","4","5","6","7","8","9","+","/" >>

\* table_a2b_base64: the 6-bit value of a character, 64 for any other one
B64Value(c) ==
    IF \E i \in 1..Len(B64Alphabet) : B64Alphabet[i] = c
    THEN (CHOOSE i \in 1..Len(B64Alphabet) : B64Alphabet[i] = c) - 1
    ELSE 64

\* binascii.a2b_base64, non-strict: the decoding loop, one character per
\* step.  quad_pos is the position in the current group of four, leftchar
\* the bits not yet emitted, pads the '=' seen since the last data character.
\* Non-alphabet characters are skipped; a complete pad sequence stops the
\* parse; input ending inside a group raises binascii.Error.
RECURSIVE A2b(_, _, _, _, _)
A2b(s, quad_pos, leftchar, pads, out) ==
    IF s = <<>> THEN
        IF quad_pos # 0 THEN [ok |-> FALSE, bytes |-> <<>>]
        ELSE [ok |-> TRUE, bytes |-> out]
    ELSE LET c == Head(s)
             v == B64Value(c)
         IN
         IF c = "=" THEN
             IF quad_pos >= 2 /\ quad_pos + pads + 1 >= 4
             THEN [ok |-> TRUE, bytes |-> out]
             ELSE A2b(Tail(s), quad_pos, leftchar,
                      IF quad_pos >= 2 THEN pads + 1 ELSE pads, out)
         ELSE IF v >= 64 THEN A2b(Tail(s), quad_pos, leftchar, pads, out)
         ELSE CASE quad_pos = 0 -> A2b(Tail(s), 1, v, 0, out)
                [] quad_pos = 1 ->
                     A2b(Tail(s), 2, v % 16, 0,
                         Append(out, (leftchar * 4 + v \div 16) % 256))
                [] quad_pos = 2 ->
                     A2b(Tail(s), 3, v % 4, 0,
                         Append(out, (leftchar * 16 + v \div 4) % 256))
                [] quad_pos = 3 ->
                     A2b(Tail(s), 0, 0, 0,
                         Append(out, (leftchar * 64 + v) % 256))

b64decode(s) == A2b(s, 0, 0, 0, <<>>)

\* line 101: base64.b64decode(data_url.split(',')[1]); IndexError when the
\* string has no comma, binascii.Error when the segment does not decode
Payload(url) == Split(url, ",")[2]

DecodeImage(url) ==
    IF Len(Split(url, ",")) < 2 THEN [ok |-> FALSE, err |-> "IndexError", bytes |-> <<>>]
    ELSE LET d == b64decode(Payload(url)) IN
         IF d.ok THEN [ok |-> TRUE, err |-> "", bytes |-> d.bytes]
         ELSE [ok |-> FALSE, err |-> "binascii.Error", bytes |-> <<>>]

\* ------------------------------------------------------- process_image
confidence_threshold == 70     \* default confidence_threshold=0.7

\* " ".join(texts)
RECURSIVE Join(_)
Join(texts) ==
    IF texts = <<>> THEN ""
    ELSE IF Len(texts) = 1 THEN texts[1]
    ELSE texts[1] \o " " \o Join(Tail(texts))

\* lines 31-33: [text for _, text, confidence in results
\*               if confidence >= confidence_threshold]
RECURSIVE extracted_texts_All(_, _)
extracted_texts_All(results, threshold) ==
    IF results = <<>> THEN <<>>
    ELSE <<Head(results).text>> \o extracted_texts_All(Tail(results), threshold)

RECURSIVE extracted_texts_Strict(_, _)
extracted_texts_Strict(results, threshold) ==
    IF results = <<>> THEN <<>>
    ELSE (IF Head(results).confidence > threshold
          THEN <<Head(results).text>> ELSE <<>>)
         \o extracted_texts_Strict(Tail(results), threshold)

RECURSIVE extracted_texts(_, _)
extracted_texts(results, threshold) ==
    IF results = <<>> THEN <<>>
    ELSE (IF Head(results).confidence >= threshold
          THEN <<Head(results).text>> ELSE <<>>)
         \o extracted_texts(Tail(results), threshold)

\* the value process_image returns for the fragments readtext produced
process_image(results, threshold) == Join(extracted_texts(results, threshold))

\* ------------------------------------------------ gemini_generate_response
\* An outcome of model.generate_content: it raises, or it returns a response
\* whose candidates are each the sequence of the texts of their content parts.
\* Lines 81-85: the first part of the first candidate; None from the except
\* branch, and None again when the if fails and the function falls off its end.
gemini_generate_response_Last(outcome) ==
    IF outcome.raises THEN NoText
    ELSE IF outcome.candidates # <<>> /\ outcome.candidates[1] # <<>>
         THEN Text(outcome.candidates[Len(outcome.candidates)][1])
         ELSE NoText

gemini_generate_response(outcome) ==
    IF outcome.raises THEN NoText
    ELSE IF outcome.candidates # <<>> /\ outcome.candidates[1] # <<>>
         THEN Text(outcome.candidates[1][1])
         ELSE NoText

\* lines 120-124
system_message ==
    "Act as an agriculture expert. Provide all details about the product "
    \o "including its uses, chemical composition, and benefits. "
    \o "Here is the product information: "

\* ------------------------------------------------------------- inputs
DataHeader ==
    << "d","a","t","a",":","i","m","a","g","e","/","j","p","e","g",";",
       "b","a","s","e","6","4" >>
UrlABCDEF == DataHeader \o <<",">> \o <<"Q","U","J","D","R","E","V","G">>
UrlTwoCommas == DataHeader \o <<",">> \o <<"Q","U","J","D">> \o <<",">> \o <<"R","E","V","G">>
UrlNoComma == DataHeader
UrlBadPadding == DataHeader \o <<",">> \o <<"Q","U","J">>

\* JSON bodies of the POST: no image key, image null, image a string
BodyNoKey == [has_image |-> FALSE, image |-> None]
BodyNull == [has_image |-> TRUE, image |-> None]
BodyOf(url) == [has_image |-> TRUE, image |-> Str(url)]
NoBody == [has_image |-> FALSE, image |-> Str(<<"-">>)]
Bodies ==
    { BodyNoKey, BodyNull, BodyOf(<<>>), BodyOf(UrlABCDEF),
      BodyOf(UrlNoComma), BodyOf(UrlBadPadding) }

\* inputs of the decoding on its own: every string over a header character,
\* the comma, a base64 digit and the pad, and the URLs above
UrlChars == {":", ",", "Q", "="}
Urls ==
    UNION { [1..n -> UrlChars] : n \in 0..MaxUrlLen }
        \cup {UrlABCDEF, UrlTwoCommas, UrlNoComma, UrlBadPadding}

\* what reader.readtext may return: (text, confidence) in engine order
Frag(t, c) == [text |-> t, confidence |-> c]
OcrResults ==
    { <<>>,
      << Frag("NPK", 50), Frag("Fertilizer", 69) >>,
      << Frag("", 90) >>,
      << Frag("NPK Fertilizer", 95), Frag("blur", 69), Frag("19:19:19", 70) >> }

Outcome(r, c) == [raises |-> r, candidates |-> c]
ApiOutcomes ==
    { Outcome(TRUE, <<>>),
      Outcome(FALSE, <<>>),
      Outcome(FALSE, << <<>> >>),
      Outcome(FALSE, << <<"">> >>),
      Outcome(FALSE, << <<"{listings:[1]}", "{listings:[2]}">>, <<"{listings:[3]}">> >>) }
NoOutcome == Outcome(FALSE, << <<"-">> >>)

\* inputs of process_image on its own
FragTexts == {"", "NPK", "19:19:19"}
Confidences == {0, 69, 70, 100}
Thresholds == {0, 70, 71, 100}
Fragments == [text : FragTexts, confidence : Confidences]
FragmentLists == UNION { [1..n -> Fragments] : n \in 0..MaxFragments }

\* ------------------------------------------------------------- state
VARIABLES
    file,            \* uploaded_images/captured_image.jpg: exists, data, writer
    unlinked,        \* per request: its open descriptor is on a removed file
    pc,              \* per request: the state of index()
    method,          \* per request: request.method
    body,            \* per request: request.json
    image_data,      \* per request: the decoded bytes
    ocr_seen,        \* per request: the file as readtext found it (Seen)
    results,         \* per request: what readtext returned
    extracted_text,  \* per request
    prompt,          \* per request
    gemini_calls,    \* per request: calls of gemini_generate_response
    api,             \* per request: the outcome of model.generate_content
    response,        \* per request: what gemini_generate_response returned
    removed,         \* per request: whose file its os.remove unlinked
    http,            \* per request: the response sent
    kind,            \* per request: why it failed
    pi_results, pi_threshold, pi_texts, pi_out,   \* a call of process_image
    pi_prev,                                       \* the call before it
    in_url, in_image                 \* a data URL and what lines 96-101 make of it

reqvars == << file, unlinked, pc, method, body, image_data, ocr_seen, results,
              extracted_text, prompt, gemini_calls, api, response, removed,
              http, kind >>
pivars == << pi_results, pi_threshold, pi_texts, pi_out, pi_prev >>
invars == << in_url, in_image >>
vars == << reqvars, pivars, invars >>

NoFile == [exists |-> FALSE, data |-> <<>>, writer |-> 0]
FileOf(d, w) == [exists |-> TRUE, data |-> d, writer |-> w]
\* what a request finds at the path: the bytes, and whether it wrote them
Whose(w, r) == IF w = r THEN "own" ELSE IF w = 0 THEN "" ELSE "other"
Seen(f, r) == [exists |-> f.exists, data |-> f.data, writer |-> Whose(f.writer, r)]
NotRead == [exists |-> FALSE, data |-> <<>>, writer |-> "-"]

NoHttp == [status |-> 0, error |-> "", extracted_text |-> "", gemini_response |-> NoText]
HttpError(code, msg) ==
    [status |-> code, error |-> msg, extracted_text |-> "", gemini_response |-> NoText]
HttpOk(text, resp) ==
    [status |-> 200, error |-> "", extracted_text |-> text, gemini_response |-> resp]
HttpPage == [status |-> 200, error |-> "index.html", extracted_text |-> "", gemini_response |-> NoText]

NoCall == [called |-> FALSE, threshold |-> 0, texts |-> <<>>]

ReqInit ==
    /\ file = NoFile
    /\ unlinked = [r \in Requests |-> FALSE]
    /\ pc = [r \in Requests |-> "Idle"]
    /\ method = [r \in Requests |-> ""]
    /\ body = [r \in Requests |-> NoBody]
    /\ image_data = [r \in Requests |-> <<>>]
    /\ ocr_seen = [r \in Requests |-> NotRead]
    /\ results = [r \in Requests |-> <<>>]
    /\ extracted_text = [r \in Requests |-> ""]
    /\ prompt = [r \in Requests |-> ""]
    /\ gemini_calls = [r \in Requests |-> 0]
    /\ api = [r \in Requests |-> NoOutcome]
    /\ response = [r \in Requests |-> NoText]
    /\ removed = [r \in Requests |-> ""]
    /\ http = [r \in Requests |-> NoHttp]
    /\ kind = [r \in Requests |-> ""]

PiIdle ==
    /\ pi_results = <<>>
    /\ pi_threshold = confidence_threshold
    /\ pi_texts = <<>>
    /\ pi_out = NoText
    /\ pi_prev = NoCall

NotDecoded == [ok |-> FALSE, err |-> "-", bytes |-> <<>>]
InIdle == in_url = <<>> /\ in_image = NotDecoded

Init == ReqInit /\ PiIdle /\ InIdle

\* a request ends with an error response
Fail(r, k, resp) ==
    /\ pc' = [pc EXCEPT ![r] = "Failed"]
    /\ kind' = [kind EXCEPT ![r] = k]
    /\ http' = [http EXCEPT ![r] = resp]

\* ------------------------------------------------------------- index()
\* line 136: a GET renders the page and touches nothing else
Get(r) ==
    /\ pc[r] = "Idle"
    /\ method' = [method EXCEPT ![r] = "GET"]
    /\ pc' = [pc EXCEPT ![r] = "Rendered"]
    /\ http' = [http EXCEPT ![r] = HttpPage]
    /\ UNCHANGED << file, unlinked, body, image_data, ocr_seen, results,
                    extracted_text, prompt, gemini_calls, api, response,
                    removed, kind, pivars, invars >>

\* lines 94-103: read the image field, answer 400 when it is falsy, decode
\* the payload (an exception ends the request with a 500) and open the
\* stored image for writing, which creates or truncates it
Post(r) ==
    /\ pc[r] = "Idle"
    /\ \E b \in Bodies :
        LET data_url == JsonGet(b)
            decoded == DecodeImage(data_url.val)
        IN
        /\ method' = [method EXCEPT ![r] = "POST"]
        /\ body' = [body EXCEPT ![r] = b]
        /\ IF Falsy(data_url) THEN
               /\ Fail(r, "MissingImage", HttpError(400, "No image data provided"))
               /\ UNCHANGED << file, unlinked, image_data >>
           ELSE IF ~decoded.ok THEN
               /\ Fail(r, decoded.err, HttpError(500, decoded.err))
               /\ UNCHANGED << file, unlinked, image_data >>
           ELSE
               /\ image_data' = [image_data EXCEPT ![r] = decoded.bytes]
               /\ file' = FileOf(<<>>, r)
               /\ unlinked' = [unlinked EXCEPT ![r] = FALSE]
               /\ pc' = [pc EXCEPT ![r] = "Writing"]
               /\ UNCHANGED << http, kind >>
    /\ UNCHANGED << ocr_seen, results, extracted_text, prompt, gemini_calls,
                    api, response, removed, pivars, invars >>

\* line 104: write the bytes at offset 0 of the opened file and close it;
\* the write lands in the file at the path unless that file was removed
\* after the open
WriteImage(r) ==
    /\ pc[r] = "Writing"
    /\ file' = IF unlinked[r] THEN file
               ELSE FileOf(image_data[r]
                           \o SubSeq(file.data, Len(image_data[r]) + 1, Len(file.data)), r)
    /\ pc' = [pc EXCEPT ![r] = "ImageReceived"]
    /\ UNCHANGED << unlinked, method, body, image_data, ocr_seen, results,
                    extracted_text, prompt, gemini_calls, api, response,
                    removed, http, kind, pivars, invars >>

\* lines 107-110: process_image reads the file at the path (an exception of
\* the reader ends the request with a 500); empty text is answered with 400
Ocr_NoCheck(r) ==
    /\ pc[r] = "ImageReceived"
    /\ ocr_seen' = [ocr_seen EXCEPT ![r] = Seen(file, r)]
    /\ \/ /\ Fail(r, "OcrError", HttpError(500, "OcrError"))
          /\ UNCHANGED << results, extracted_text >>
       \/ /\ file.exists
          /\ \E res \in OcrResults :
               /\ results' = [results EXCEPT ![r] = res]
               /\ extracted_text' = [extracted_text EXCEPT ![r] =
                                        process_image(res, confidence_threshold)]
               /\ pc' = [pc EXCEPT ![r] = "TextExtracted"]
               /\ UNCHANGED << http, kind >>
    /\ UNCHANGED << file, unlinked, method, body, image_data, prompt,
                    gemini_calls, api, response, removed, pivars, invars >>

Ocr(r) ==
    /\ pc[r] = "ImageReceived"
    /\ ocr_seen' = [ocr_seen EXCEPT ![r] = Seen(file, r)]
    /\ \/ /\ Fail(r, "OcrError", HttpError(500, "OcrError"))
          /\ UNCHANGED << results, extracted_text >>
       \/ /\ file.exists
          /\ \E res \in OcrResults :
               LET text == process_image(res, confidence_threshold) IN
               /\ results' = [results EXCEPT ![r] = res]
               /\ extracted_text' = [extracted_text EXCEPT ![r] = text]
               /\ IF text = ""
                  THEN Fail(r, "NoTextExtracted",
                            HttpError(400, "No text extracted from the image"))
                  ELSE /\ pc' = [pc EXCEPT ![r] = "TextExtracted"]
                       /\ UNCHANGED << http, kind >>
    /\ UNCHANGED << file, unlinked, method, body, image_data, prompt,
                    gemini_calls, api, response, removed, pivars, invars >>

\* lines 113-125: the schemas are built from the fixed field list and the
\* prompt is the preamble followed by the extracted text
BuildPrompt(r) ==
    /\ pc[r] = "TextExtracted"
    /\ prompt' = [prompt EXCEPT ![r] = system_message \o extracted_text[r]]
    /\ pc' = [pc EXCEPT ![r] = "PromptBuilt"]
    /\ UNCHANGED << file, unlinked, method, body, image_data, ocr_seen, results,
                    extracted_text, gemini_calls, api, response, removed,
                    http, kind, pivars, invars >>

\* line 128: one call of gemini_generate_response(prompt, container_model)
Generate(r) ==
    /\ pc[r] = "PromptBuilt"
    /\ \E o \in ApiOutcomes :
        /\ api' = [api EXCEPT ![r] = o]
        /\ response' = [response EXCEPT ![r] = gemini_generate_response(o)]
    /\ gemini_calls' = [gemini_calls EXCEPT ![r] = @ + 1]
    /\ pc' = [pc EXCEPT ![r] = "ResponseReceived"]
    /\ UNCHANGED << file, unlinked, method, body, image_data, ocr_seen, results,
                    extracted_text, prompt, removed, http, kind, pivars, invars >>

\* lines 131-133: os.remove(image_path) (FileNotFoundError, a 500, when no
\* file is at the path), then the 200 response
Cleanup(r) ==
    /\ pc[r] = "ResponseReceived"
    /\ IF file.exists THEN
           /\ removed' = [removed EXCEPT ![r] = Whose(file.writer, r)]
           /\ file' = NoFile
           /\ unlinked' = [q \in Requests |-> unlinked[q] \/ pc[q] = "Writing"]
           /\ pc' = [pc EXCEPT ![r] = "Done"]
           /\ http' = [http EXCEPT ![r] = HttpOk(extracted_text[r], response[r])]
           /\ UNCHANGED kind
       ELSE
           /\ Fail(r, "FileNotFoundError", HttpError(500, "FileNotFoundError"))
           /\ UNCHANGED << file, unlinked, removed >>
    /\ UNCHANGED << method, body, image_data, ocr_seen, results, extracted_text,
                    prompt, gemini_calls, api, response, pivars, invars >>

Next ==
    \E r \in Requests :
        \/ Get(r)
        \/ Post(r)
        \/ WriteImage(r)
        \/ Ocr(r)
        \/ BuildPrompt(r)
        \/ Generate(r)
        \/ Cleanup(r)

Spec == Init /\ [][Next]_vars

\* ------------------------------------------- process_image on its own
\* one call of process_image(image_path, lang_list, t) on an image whose
\* fragments are pi_results; the call before it is kept in pi_prev
CallProcessImage(t) ==
    /\ pi_prev' = IF pi_out.tag = "str"
                  THEN [called |-> TRUE, threshold |-> pi_threshold, texts |-> pi_texts]
                  ELSE NoCall
    /\ pi_threshold' = t
    /\ pi_texts' = extracted_texts(pi_results, t)
    /\ pi_out' = Text(process_image(pi_results, t))
    /\ UNCHANGED << pi_results, reqvars, invars >>

ExtractInit ==
    /\ ReqInit
    /\ InIdle
    /\ pi_results \in FragmentLists
    /\ pi_threshold = confidence_threshold
    /\ pi_texts = <<>>
    /\ pi_out = NoText
    /\ pi_prev = NoCall

ExtractNext == \E t \in Thresholds : CallProcessImage(t)

ExtractSpec == ExtractInit /\ [][ExtractNext]_vars

\* -------------------------------------------- the decoding on its own
\* lines 96-101 for a body whose image field is the string in_url
DecodeDataUrl ==
    /\ in_image = NotDecoded
    /\ in_image' = IF Falsy(Str(in_url))
                   THEN [ok |-> FALSE, err |-> "MissingImage", bytes |-> <<>>]
                   ELSE DecodeImage(in_url)
    /\ UNCHANGED << in_url, reqvars, pivars >>

IngressInit ==
    /\ ReqInit
    /\ PiIdle
    /\ in_url \in Urls
    /\ in_image = NotDecoded

IngressNext == DecodeDataUrl

IngressSpec == IngressInit /\ [][IngressNext]_vars

TypeOK ==
    /\ pc \in [Requests -> {"Idle", "Writing", "ImageReceived", "TextExtracted",
                            "PromptBuilt", "ResponseReceived", "Done",
                            "Failed", "Rendered"}]
    /\ file.exists \in BOOLEAN
    /\ \A r \in Requests : gemini_calls[r] \in 0..1

\* =============================================================== claims
Terminated(r) == pc[r] \in {"Done", "Failed"}
\* the request opened the stored image / has written and closed it
Opened(r) ==
    /\ pc[r] \notin {"Idle", "Rendered"}
    /\ kind[r] \notin {"MissingImage", "IndexError", "binascii.Error"}
Wrote(r) == Opened(r) /\ pc[r] # "Writing"
\* readtext returned a fragment list for the request
OcrReturned(r) == ocr_seen[r] # NotRead /\ kind[r] # "OcrError"
HasContent(o) == ~o.raises /\ o.candidates # <<>> /\ o.candidates[1] # <<>>
GenerationFailed(o) == ~HasContent(o)
Stepped(r) == pc'[r] # pc[r]

\* C1: every POST that wrote the stored image has deleted it by the time it
\* ends, on the 200 path, on the 400 'No text extracted' path and on any
\* other failure: once the only request that touched the file has
\* terminated, no file is left at the path.
C1_StoredImageDeleted ==
    \A r \in Requests :
        (Terminated(r) /\ Wrote(r) /\ \A q \in Requests \ {r} : ~Opened(q))
            => ~file.exists

\* C2: when the same valid POST is issued twice, each request reads in its
\* OCR step exactly the file it wrote, removes only the file it wrote, and
\* never finds the file already deleted by the other.
SameValidPosts ==
    \A p, q \in Requests :
        (method[p] = "POST" /\ method[q] = "POST")
            => /\ body[p] = body[q]
               /\ ~Falsy(JsonGet(body[p]))
               /\ DecodeImage(JsonGet(body[p]).val).ok
C2_IndependentLifecycles ==
    SameValidPosts =>
        \A r \in Requests :
            /\ ocr_seen[r] # NotRead => ocr_seen[r] = Seen(FileOf(image_data[r], r), r)
            /\ removed[r] \in {"", "own"}
            /\ kind[r] # "FileNotFoundError"

\* C3: a POST whose body has no image key, or whose image is null, is
\* answered 400 {"error": "No image data provided"}; the step that answers
\* it leaves the stored image exactly as it was, and the request never runs
\* OCR nor calls the generative adapter.
NoImage(b) == ~b.has_image \/ b.image = None
C3_MissingImage ==
    /\ [](\A r \in Requests :
            (method[r] = "POST" /\ NoImage(body[r]))
                => /\ pc[r] = "Failed"
                   /\ http[r] = HttpError(400, "No image data provided")
                   /\ ocr_seen[r] = NotRead
                   /\ gemini_calls[r] = 0)
    /\ [][\A r \in Requests :
            (pc[r] = "Idle" /\ method'[r] = "POST" /\ NoImage(body'[r]))
                => (file' = file /\ unlinked' = unlinked)]_vars
C3_Witness ==
    \E r, q \in Requests :
        /\ body[r] = BodyNull /\ method[r] = "POST" /\ pc[r] = "Failed"
        /\ body[q] = BodyNoKey /\ method[q] = "POST" /\ pc[q] = "Failed"

\* C4: when readtext returned no fragment, or only fragments below the
\* threshold, the extracted text is empty, the request is answered 400
\* {"error": "No text extracted from the image"} and the generative adapter
\* is never called.
AllBelow(res) == \A i \in 1..Len(res) : res[i].confidence < confidence_threshold
C4_NoTextExtracted ==
    \A r \in Requests :
        (OcrReturned(r) /\ AllBelow(results[r]))
            => /\ extracted_text[r] = ""
               /\ pc[r] = "Failed"
               /\ http[r] = HttpError(400, "No text extracted from the image")
               /\ gemini_calls[r] = 0
               /\ prompt[r] = ""
C4_Witness ==
    \E r, q \in Requests :
        /\ OcrReturned(r) /\ results[r] = <<>> /\ http[r].status = 400
        /\ OcrReturned(q) /\ results[q] # <<>> /\ AllBelow(results[q])
        /\ http[q].status = 400

\* C5: the output of process_image at threshold t is the single-space join
\* of exactly the fragments with confidence >= t, in engine order; and of
\* two calls on the same fragments, the one with the higher threshold
\* retains a subsequence of what the other retains.
KeptIdx == {i \in 1..Len(pi_results) : pi_results[i].confidence >= pi_threshold}
Rank(i) == Cardinality({j \in KeptIdx : j <= i})
RECURSIVE SpaceJoined(_, _)
SpaceJoined(texts, n) ==
    IF n = 0 THEN ""
    ELSE IF n = 1 THEN texts[1]
    ELSE SpaceJoined(texts, n - 1) \o " " \o texts[n]
RECURSIVE IsSubSeq(_, _)
IsSubSeq(a, b) ==
    IF a = <<>> THEN TRUE
    ELSE IF b = <<>> THEN FALSE
    ELSE IF Head(a) = Head(b) THEN IsSubSeq(Tail(a), Tail(b))
    ELSE IsSubSeq(a, Tail(b))
C5_ThresholdFilter ==
    pi_out.tag = "str" =>
        /\ Len(pi_texts) = Cardinality(KeptIdx)
        /\ \A i \in KeptIdx : pi_texts[Rank(i)] = pi_results[i].text
        /\ pi_out.val = SpaceJoined(pi_texts, Len(pi_texts))
        /\ (pi_prev.called /\ pi_prev.threshold <= pi_threshold)
               => (IsSubSeq(pi_texts, pi_prev.texts)
                   /\ Len(pi_texts) <= Len(pi_prev.texts))
        /\ (pi_prev.called /\ pi_threshold <= pi_prev.threshold)
               => (IsSubSeq(pi_prev.texts, pi_texts)
                   /\ Len(pi_prev.texts) <= Len(pi_texts))
C5_Witness ==
    /\ pi_out.tag = "str" /\ pi_prev.called
    /\ pi_prev.threshold < pi_threshold
    /\ Len(pi_texts) = 2 /\ Len(pi_prev.texts) = 3
    /\ \E i \in KeptIdx : pi_results[i].confidence = pi_threshold
    /\ pi_texts[1] # pi_texts[2] /\ pi_texts[1] # ""

\* C6: a POST whose extracted text is non-empty ends with the prompt equal
\* to the preamble followed by the text, exactly one call of
\* gemini_generate_response, and HTTP 200 with extracted_text equal to the
\* extracted text.
C6_PromptAndOk ==
    \A r \in Requests :
        (Terminated(r) /\ extracted_text[r] # "")
            => /\ prompt[r] = system_message \o extracted_text[r]
               /\ gemini_calls[r] = 1
               /\ http[r].status = 200
               /\ http[r].extracted_text = extracted_text[r]

\* C7 as stated: three distinguishable outcomes, the text of the first part
\* of the first candidate, NoneResult when there is no candidate or part,
\* and ApiError when the call itself fails.
ApiError == [tag |-> "ApiError", val |-> ""]
C7_ThreeOutcomes ==
    \A r \in Requests :
        gemini_calls[r] = 1 =>
            response[r] = IF api[r].raises THEN ApiError
                          ELSE IF HasContent(api[r]) THEN Text(api[r].candidates[1][1])
                          ELSE NoText

\* C7 amended: two distinguishable outcomes, the text of the first part of
\* the first candidate (which may be the empty string), and None, both when
\* the response has no candidate or part and when the call itself fails.
C7_TwoOutcomes ==
    \A r \in Requests :
        gemini_calls[r] = 1 =>
            /\ HasContent(api[r]) =>
                   (response[r] = Text(api[r].candidates[1][1]) /\ response[r] # NoText)
            /\ GenerationFailed(api[r]) => response[r] = NoText
C7_Witness ==
    \E r, q \in Requests :
        /\ gemini_calls[r] = 1 /\ api[r].raises /\ response[r] = NoText
        /\ gemini_calls[q] = 1 /\ Len(api[q].candidates) = 2
        /\ response[q] = Text("{listings:[1]}")

\* C8: a failure of the generative call (it raises, or the response has no
\* usable content) is not a hard failure: the request still deletes the
\* stored image and ends with HTTP 200, extracted_text set and
\* gemini_response null.
C8_GenerationFailureIs200 ==
    \A r \in Requests :
        (Terminated(r) /\ gemini_calls[r] = 1 /\ GenerationFailed(api[r]))
            => /\ removed[r] # ""
               /\ http[r] = HttpOk(extracted_text[r], NoText)

\* the state of the orchestrator a request is in
State(p) == IF p = "Writing" THEN "Idle" ELSE p
Order == << "Idle", "ImageReceived", "TextExtracted", "PromptBuilt",
            "ResponseReceived", "Done" >>
InOrder(a, b) ==
    \/ a = b
    \/ b = "Failed" /\ a # "Done"
    \/ \E i \in 1..(Len(Order) - 1) : a = Order[i] /\ b = Order[i + 1]
\* the order of the steps of one POST
StepOrder(r) ==
    /\ InOrder(State(pc[r]), State(pc'[r]))
    /\ ocr_seen'[r] # ocr_seen[r] => (pc[r] = "ImageReceived" /\ Wrote(r))
    /\ gemini_calls'[r] # gemini_calls[r]
           => (pc[r] = "PromptBuilt" /\ extracted_text[r] # "")
    /\ removed'[r] # removed[r]
           => (pc[r] = "ResponseReceived" /\ gemini_calls[r] = 1)
    /\ http'[r].status = 200 => removed'[r] # ""
\* the failures of the steps other than the generative call
HardFailure(r) ==
    \/ pc[r] = "Idle" /\ Falsy(JsonGet(body'[r]))
    \/ pc[r] = "Idle" /\ ~DecodeImage(JsonGet(body'[r]).val).ok
    \/ pc[r] = "ImageReceived" /\ ~file.exists
    \/ pc[r] = "ImageReceived" /\ extracted_text'[r] = ""
    \/ pc[r] = "ResponseReceived" /\ ~file.exists
GenerationFailure(r) == pc[r] = "PromptBuilt" /\ GenerationFailed(api'[r])

\* C9 as stated: every POST moves through Idle, ImageReceived,
\* TextExtracted, PromptBuilt, ResponseReceived, Done in that order, and a
\* failure of the step of any non-terminal state leads to Failed rather
\* than to a later state.
C9_OrderAllFailuresFail ==
    [][\A r \in Requests :
        (method'[r] = "POST" /\ Stepped(r))
            => /\ StepOrder(r)
               /\ (HardFailure(r) \/ GenerationFailure(r)) => pc'[r] = "Failed"]_vars

\* C9 amended: every POST moves through the states in that order; a failure
\* of the decode-and-persist step, of the OCR step or of the deletion leads
\* to Failed, whereas a failure of the generative call leads to
\* ResponseReceived with a null response and from there to Done.
C9_OrderGenerationContinues ==
    [][\A r \in Requests :
        (method'[r] = "POST" /\ Stepped(r))
            => /\ StepOrder(r)
               /\ HardFailure(r) => pc'[r] = "Failed"
               /\ GenerationFailure(r)
                      => (pc'[r] = "ResponseReceived" /\ response'[r] = NoText)]_vars
C9_Witness ==
    \E r, q \in Requests :
        /\ pc[r] = "Done" /\ GenerationFailed(api[r]) /\ http[r].status = 200
        /\ http[r].gemini_response = NoText
        /\ pc[q] = "Failed" /\ kind[q] = "NoTextExtracted"

\* C10: the bytes written to the stored image are the base64 decoding of
\* everything that follows the first comma of the data URL, also when the
\* URL has further commas.
AfterFirstComma(url) ==
    LET first == Head_(url, ",") IN SubSeq(url, Len(first) + 2, Len(url))
C10_WholePayloadDecoded ==
    in_image.ok =>
        /\ b64decode(AfterFirstComma(in_url)).ok
        /\ in_image.bytes = b64decode(AfterFirstComma(in_url)).bytes

====
